---- MODULE Spec2Model ----
(***************************************************************************)
(* Model of parallel.py, the log verifier shipped with the Flink 1.3.0     *)
(* distribution: main(argv) validates the command line and picks the       *)
(* separator, parse(inputfile, separator) scans the log line by line into  *)
(* three defaultdict(int) counters and two integers, then runs the         *)
(* consistency checks and prints the report.                               *)
(*                                                                         *)
(* Strings are sequences of one-character strings, so that split, strip,   *)
(* int, the "in" test and the [12:] slice are computed as Python computes  *)
(* them.  A dict is the sequence of its <<key, value>> items in insertion  *)
(* order.  Every print is one entry of output.                             *)
(***************************************************************************)
EXTENDS Integers, Sequences, FiniteSets

VARIABLES argv, pc, exitCode, output, inputfile, separator, file,
          totalOperatorCounts, maxOperatorSum, numberCount,
          total_lines, max_number, numberOfParallelSources

vars == <<argv, pc, exitCode, output, inputfile, separator, file,
          totalOperatorCounts, maxOperatorSum, numberCount,
          total_lines, max_number, numberOfParallelSources>>

(* ------------------------------ bounds --------------------------------- *)

\* longest input file, in lines
MaxLines == 3

\* longest command line, in arguments after the program name
MaxArgs == 3

(* ------------------------- string primitives --------------------------- *)

Whitespace == {" ", "\n"}

Digits == {"0", "1", "2", "3", "4", "5", "6", "7", "8", "9"}

DigitVal(c) ==
    CASE c = "0" -> 0 [] c = "1" -> 1 [] c = "2" -> 2 [] c = "3" -> 3
      [] c = "4" -> 4 [] c = "5" -> 5 [] c = "6" -> 6 [] c = "7" -> 7
      [] c = "8" -> 8 [] c = "9" -> 9

\* s[n:]
Slice(s, n) == SubSeq(s, n + 1, Len(s))

\* s.startswith(p)
StartsWith(s, p) == Len(p) <= Len(s) /\ SubSeq(s, 1, Len(p)) = p

\* sub in s
Contains(s, sub) ==
    \E i \in 0..(Len(s) - Len(sub)) : SubSeq(s, i + 1, i + Len(sub)) = sub

RECURSIVE LStrip(_)
LStrip(s) ==
    IF s # <<>> /\ Head(s) \in Whitespace THEN LStrip(Tail(s)) ELSE s

RECURSIVE RStrip(_)
RStrip(s) ==
    IF s # <<>> /\ s[Len(s)] \in Whitespace
    THEN RStrip(SubSeq(s, 1, Len(s) - 1)) ELSE s

\* s.strip()
Strip(s) == RStrip(LStrip(s))

\* s.split(sep) for a non-empty sep: the fields between the successive
\* non-overlapping occurrences of sep, found left to right
RECURSIVE SplitFrom(_, _, _)
SplitFrom(s, sep, cur) ==
    IF s = <<>> THEN <<cur>>
    ELSE IF StartsWith(s, sep)
         THEN <<cur>> \o SplitFrom(Slice(s, Len(sep)), sep, <<>>)
         ELSE SplitFrom(Tail(s), sep, Append(cur, Head(s)))

Split(s, sep) == SplitFrom(s, sep, <<>>)

\* the digits of an int literal: surrounding whitespace and one sign dropped
Unsigned(s) ==
    LET t == Strip(s)
    IN  IF t # <<>> /\ Head(t) \in {"+", "-"} THEN Tail(t) ELSE t

\* int(s) does not raise ValueError
IsInt(s) ==
    LET u == Unsigned(s)
    IN  u # <<>> /\ \A i \in 1..Len(u) : u[i] \in Digits

RECURSIVE DigitsValue(_)
DigitsValue(u) ==
    IF u = <<>> THEN 0
    ELSE 10 * DigitsValue(SubSeq(u, 1, Len(u) - 1)) + DigitVal(u[Len(u)])

\* int(s)
IntOf(s) ==
    LET t == Strip(s)
    IN  IF t # <<>> /\ Head(t) = "-"
        THEN 0 - DigitsValue(Unsigned(s)) ELSE DigitsValue(Unsigned(s))

(* --------------------------- defaultdict(int) -------------------------- *)

Keys(d) == [i \in 1..Len(d) |-> d[i][1]]

Has(d, k) == \E i \in 1..Len(d) : d[i][1] = k

\* the value of d[k] (0 for a missing key)
Get(d, k) ==
    IF Has(d, k) THEN d[CHOOSE i \in 1..Len(d) : d[i][1] = k][2] ELSE 0

\* d[k] = v
Put(d, k, v) ==
    IF Has(d, k)
    THEN [i \in 1..Len(d) |-> IF d[i][1] = k THEN <<k, v>> ELSE d[i]]
    ELSE Append(d, <<k, v>>)

TouchNoInsert(d, k) == d

\* the dict after a read of d[k]: a missing key is inserted with 0
Touch(d, k) == IF Has(d, k) THEN d ELSE Append(d, <<k, 0>>)

\* d[k] += 1
IncrementTwice(d, k) == Put(d, k, Get(d, k) + 2)

Increment(d, k) == Put(d, k, Get(d, k) + 1)

\* if d[k] < v: d[k] = v
UpdateLast(d, k, v) == Put(d, k, v)

UpdateMax(d, k, v) == IF Get(d, k) < v THEN Put(d, k, v) ELSE Touch(d, k)

\* sum(d.values())
RECURSIVE SumValues(_)
SumValues(d) == IF d = <<>> THEN 0 ELSE d[1][2] + SumValues(Tail(d))

RemoveAt(d, m) == SubSeq(d, 1, m - 1) \o SubSeq(d, m + 1, Len(d))

\* sorted(d.items()) of a dict with integer keys
RECURSIVE Sorted(_)
Sorted(d) ==
    IF d = <<>> THEN <<>>
    ELSE LET m == CHOOSE i \in 1..Len(d) :
                      \A j \in 1..Len(d) : d[i][1] <= d[j][1]
         IN  <<d[m]>> \o Sorted(RemoveAt(d, m))

InsertionOrder(d) == d

SortedItems(d) == Sorted(d)

(* ------------------------------- inputs -------------------------------- *)

Comma == <<",">>

\* "--separator="
Marker == <<"-", "-", "s", "e", "p", "a", "r", "a", "t", "o", "r", "=">>

MarkerLen == 12

UsageExit == 2

\* exit status of an interpreter that dies of an uncaught exception
FatalExit == 1

\* the paths a command line names; only the first one is a readable file
Paths == {<<"f">>, <<"g">>}

Exists(path) == path = <<"f">>

\* second arguments: the option, the option with an empty value, the
\* marker not at the start of the argument, and no marker at all
Options == {Marker \o <<";">>, Marker, <<"x">> \o Marker \o <<";">>, <<";">>}

RECURSIVE OptionLists(_)
OptionLists(n) ==
    IF n = 0 THEN {<<>>}
    ELSE OptionLists(n - 1) \cup
         {Append(l, o) : l \in {x \in OptionLists(n - 1) : Len(x) = n - 1},
                         o \in Options}

ArgvSet ==
    {<<>>} \cup {<<p>> \o l : p \in Paths, l \in OptionLists(MaxArgs - 1)}

NumberTokens == {<<"0">>, <<"1">>, <<"2">>}

NameTokens == {<<"a">>, <<" ", "b">>}

CountTokens == {<<"1">>, <<"2">>}

MkLine(sep, ts, number, name, count) ==
    ts \o sep \o number \o sep \o name \o sep \o count \o <<"\n">>

RecordLines(sep, numbers, names, counts) ==
    {MkLine(sep, <<"t">>, n, m, c) : n \in numbers, m \in names, c \in counts}

\* lines that raise under the default separator: wrong field counts and
\* non-numeric fields
OddLines ==
    { <<"t", ",", "1", ",", "a", "\n">>,
      <<"t", ",", "1", ",", "a", ",", "1", ",", "1", "\n">>,
      <<"t", ",", "x", ",", "a", ",", "1", "\n">>,
      <<"t", ",", "1", ",", "a", ",", "x", "\n">>,
      <<"\n">> }

Lines ==
    RecordLines(Comma, NumberTokens, NameTokens, CountTokens)
      \cup RecordLines(Comma, {<<"1", "0">>}, {<<"a">>}, {<<"1">>})
      \cup RecordLines(Comma, {<<"0">>}, {<<"a">>}, {<<"-", "1">>})
      \cup RecordLines(<<";">>, {<<"1">>, <<"0">>}, {<<"a">>}, {<<"1">>})
      \cup RecordLines(<<"=", ";">>, {<<"1">>}, {<<"a">>}, {<<"1">>})
      \cup OddLines

(* ------------------------------- program ------------------------------- *)

Init ==
    /\ argv \in ArgvSet
    /\ pc = "main"
    /\ exitCode = 0
    /\ output = <<>>
    /\ inputfile = <<>>
    /\ separator = <<>>
    /\ file = <<>>
    /\ totalOperatorCounts = <<>>
    /\ maxOperatorSum = <<>>
    /\ numberCount = <<>>
    /\ total_lines = 0
    /\ max_number = 0
    /\ numberOfParallelSources = 0

parseLocals == <<totalOperatorCounts, maxOperatorSum, numberCount,
                 total_lines, max_number, numberOfParallelSources>>

SeparatorAlwaysDefault(args) == Comma

\* lines 17-19: argv[1][12:] when the option is recognised, "," otherwise
SeparatorOf(args) ==
    IF Len(args) = 2 /\ Contains(args[2], Marker)
    THEN Slice(args[2], MarkerLen)
    ELSE Comma

UsageErrorOffByOne(args) == Len(args) > 3 \/ Len(args) = 0

\* line 11
UsageError(args) == Len(args) > 2 \/ Len(args) = 0

\* main, lines 7-21
Main ==
    /\ pc = "main"
    /\ IF UsageError(argv)
       THEN /\ output' = Append(output, <<"Usage">>)
            /\ exitCode' = UsageExit
            /\ pc' = "exit"
            /\ UNCHANGED <<inputfile, separator>>
       ELSE /\ inputfile' = argv[1]
            /\ separator' = SeparatorOf(argv)
            /\ pc' = "open"
            /\ UNCHANGED <<output, exitCode>>
    /\ UNCHANGED <<argv, file, parseLocals>>

\* parse, lines 25-31: the locals are created and the file is opened
Open ==
    /\ pc = "open"
    /\ IF Exists(inputfile)
       THEN pc' = "scan" /\ UNCHANGED exitCode
       ELSE pc' = "exit" /\ exitCode' = FatalExit
    /\ totalOperatorCounts' = <<>>
    /\ maxOperatorSum' = <<>>
    /\ numberCount' = <<>>
    /\ total_lines' = 0
    /\ max_number' = 0
    /\ UNCHANGED <<argv, output, inputfile, separator, file,
                   numberOfParallelSources>>

\* lines 33-36 raise ValueError on this line
Raises(line, sep) ==
    \/ sep = <<>>
    \/ LET fields == Split(line, sep)
       IN  \/ Len(fields) # 4
           \/ ~IsInt(fields[2])
           \/ ~IsInt(fields[4])

NumberOf(line, sep) == IntOf(Split(line, sep)[2])

NameOf(line, sep) == Strip(Split(line, sep)[3])

CountOf(line, sep) == IntOf(Split(line, sep)[4])

ScanLineSkipping(line) ==
    /\ pc = "scan"
    /\ Len(file) < MaxLines
    /\ file' = Append(file, line)
    /\ IF Raises(line, separator)
       THEN UNCHANGED <<pc, exitCode, parseLocals>>
       ELSE LET number == NumberOf(line, separator)
                name == NameOf(line, separator)
                operator_count == CountOf(line, separator)
            IN  /\ totalOperatorCounts' = Increment(totalOperatorCounts, name)
                /\ total_lines' = total_lines + 1
                /\ maxOperatorSum' =
                       UpdateMax(maxOperatorSum, name, operator_count)
                /\ numberCount' = Increment(numberCount, number)
                /\ max_number' =
                       IF number > max_number THEN number ELSE max_number
                /\ UNCHANGED <<pc, exitCode, numberOfParallelSources>>
    /\ UNCHANGED <<argv, output, inputfile, separator>>

\* one iteration of the loop of lines 32-48 on the next line of the file
ScanLine(line) ==
    /\ pc = "scan"
    /\ Len(file) < MaxLines
    /\ file' = Append(file, line)
    /\ IF Raises(line, separator)
       THEN /\ pc' = "exit"
            /\ exitCode' = FatalExit
            /\ UNCHANGED parseLocals
       ELSE LET number == NumberOf(line, separator)
                name == NameOf(line, separator)
                operator_count == CountOf(line, separator)
            IN  /\ totalOperatorCounts' = Increment(totalOperatorCounts, name)
                /\ total_lines' = total_lines + 1
                /\ maxOperatorSum' =
                       UpdateMax(maxOperatorSum, name, operator_count)
                /\ numberCount' = Increment(numberCount, number)
                /\ max_number' =
                       IF number > max_number THEN number ELSE max_number
                /\ UNCHANGED <<pc, exitCode, numberOfParallelSources>>
    /\ UNCHANGED <<argv, output, inputfile, separator>>

\* the file is exhausted: the loop and the with block end
EndOfFile ==
    /\ pc = "scan"
    /\ pc' = "opcheck"
    /\ UNCHANGED <<argv, exitCode, output, inputfile, separator, file,
                   parseLocals>>

\* the two prints of lines 52-53 for every key from position i on
RECURSIVE OperatorReport(_, _, _)
OperatorReport(maxd, totald, i) ==
    IF i > Len(maxd) THEN <<>>
    ELSE LET operator == maxd[i][1]
         IN  (IF Get(maxd, operator) # Get(totald, operator)
              THEN << <<"OperatorSum", operator>>,
                      <<"maxOperatorSum", Get(maxd, operator),
                        Get(totald, operator)>> >>
              ELSE <<>>)
             \o OperatorReport(maxd, totald, i + 1)

\* lines 50-55
OperatorCheck ==
    /\ pc = "opcheck"
    /\ output' = output \o OperatorReport(maxOperatorSum, totalOperatorCounts, 1)
    /\ max_number' = max_number + 1
    /\ pc' = "baseline"
    /\ UNCHANGED <<argv, exitCode, inputfile, separator, file,
                   totalOperatorCounts, maxOperatorSum, numberCount,
                   total_lines, numberOfParallelSources>>

SourcesFromZero(d) == Get(d, 0)

\* numberCount[1]
SourcesOf(d) == Get(d, 1)

\* line 58
Baseline ==
    /\ pc = "baseline"
    /\ numberOfParallelSources' = SourcesOf(numberCount)
    /\ numberCount' = Touch(numberCount, 1)
    /\ pc' = "seqcheck"
    /\ UNCHANGED <<argv, exitCode, output, inputfile, separator, file,
                   totalOperatorCounts, maxOperatorSum, total_lines,
                   max_number>>

\* the prints of line 62 for the items from position i on
RECURSIVE SequenceReport(_, _, _)
SequenceReport(items, sources, i) ==
    IF i > Len(items) THEN <<>>
    ELSE (IF items[i][2] # sources
          THEN << <<"NotReceived", items[i][1], items[i][2], sources>> >>
          ELSE <<>>)
         \o SequenceReport(items, sources, i + 1)

\* lines 60-62
SequenceCheck ==
    /\ pc = "seqcheck"
    /\ output' = output \o
           SequenceReport(SortedItems(numberCount), numberOfParallelSources, 1)
    /\ pc' = "rangecheck"
    /\ UNCHANGED <<argv, exitCode, inputfile, separator, file, parseLocals>>

RangeCheckShortCircuit ==
    /\ pc = "rangecheck"
    /\ IF total_lines # max_number * numberOfParallelSources
       THEN /\ output' = output \o << <<"LinesMismatch">>,
                                       <<"TotalLines", total_lines, max_number>> >>
            /\ pc' = "exit"
       ELSE /\ output' = output
            /\ pc' = "sumcheck"
    /\ UNCHANGED <<argv, exitCode, inputfile, separator, file, parseLocals>>

\* lines 64-66
RangeCheck ==
    /\ pc = "rangecheck"
    /\ output' =
           IF total_lines # max_number * numberOfParallelSources
           THEN output \o << <<"LinesMismatch">>,
                             <<"TotalLines", total_lines, max_number>> >>
           ELSE output
    /\ pc' = "sumcheck"
    /\ UNCHANGED <<argv, exitCode, inputfile, separator, file, parseLocals>>

\* lines 68-70
PerOperatorCheck ==
    /\ pc = "sumcheck"
    /\ output' =
           IF total_lines # SumValues(totalOperatorCounts)
           THEN output \o << <<"OperatorLinesMismatch">>,
                             <<"SawOperators", Keys(totalOperatorCounts)>> >>
           ELSE output
    /\ pc' = "summary"
    /\ UNCHANGED <<argv, exitCode, inputfile, separator, file, parseLocals>>

\* line 72, then parse and main return
Summary ==
    /\ pc = "summary"
    /\ output' = Append(output, <<"Saw", total_lines>>)
    /\ pc' = "exit"
    /\ UNCHANGED <<argv, exitCode, inputfile, separator, file, parseLocals>>

Next ==
    \/ Main
    \/ Open
    \/ \E line \in Lines : ScanLine(line)
    \/ EndOfFile
    \/ OperatorCheck
    \/ Baseline
    \/ SequenceCheck
    \/ RangeCheck
    \/ PerOperatorCheck
    \/ Summary

Spec == Init /\ [][Next]_vars

(* ------------------------ what the log contains ------------------------ *)

\* position of pc in the program text
Stage ==
    CASE pc = "main" -> 0 [] pc = "open" -> 1 [] pc = "scan" -> 2
      [] pc = "opcheck" -> 3 [] pc = "baseline" -> 4 [] pc = "seqcheck" -> 5
      [] pc = "rangecheck" -> 6 [] pc = "sumcheck" -> 7
      [] pc = "summary" -> 8 [] pc = "exit" -> 9

\* the run read the whole file and returned from parse and main
Finished == pc = "exit" /\ exitCode = 0

\* the records of the lines of the file, as lines 33-37 read them
RECURSIVE RecordsOf(_, _)
RecordsOf(lines, sep) ==
    IF lines = <<>> THEN <<>>
    ELSE << [number |-> NumberOf(Head(lines), sep),
             name |-> NameOf(Head(lines), sep),
             count |-> CountOf(Head(lines), sep)] >>
         \o RecordsOf(Tail(lines), sep)

Log == RecordsOf(file, separator)

Numbers(log) == {log[i].number : i \in 1..Len(log)}

Names(log) == {log[i].name : i \in 1..Len(log)}

LinesOfName(log, name) == {i \in 1..Len(log) : log[i].name = name}

LineCount(log, name) == Cardinality(LinesOfName(log, name))

Receipts(log, n) == Cardinality({i \in 1..Len(log) : log[i].number = n})

MaxOf(S) == CHOOSE x \in S : \A y \in S : y <= x

\* the largest count reported on the lines of the operator, 0 when none
\* of them is positive
LargestCount(log, name) ==
    MaxOf({log[i].count : i \in LinesOfName(log, name)} \cup {0})

\* the count reported on the last line of the operator
LastCount(log, name) == log[MaxOf(LinesOfName(log, name))].count

IsOperatorEntry(e) == e[1] \in {"OperatorSum", "maxOperatorSum"}

IsSequenceEntry(e) == e[1] = "NotReceived"

OperatorEntries == SelectSeq(output, IsOperatorEntry)

SequenceEntries == SelectSeq(output, IsSequenceEntry)

ReportedNumbers ==
    [i \in 1..Len(SequenceEntries) |-> SequenceEntries[i][2]]

HasEntry(kind) == \E i \in 1..Len(output) : output[i][1] = kind

\* each of S sources contributed one line per sequence number 0..N-1 and
\* every operator's largest reported count is its number of lines
HappyLog(log, S, N) ==
    /\ Len(log) = S * N
    /\ \A k \in 0..(N - 1) : Receipts(log, k) = S
    /\ \A name \in Names(log) : LargestCount(log, name) = LineCount(log, name)

\* the lines of S sources over 0..N-1 with one line of number k missing
MissingLog(log, S, N, k) ==
    /\ Len(log) = S * N - 1
    /\ \A j \in 0..(N - 1) : Receipts(log, j) = IF j = k THEN S - 1 ELSE S

(* ------------------------------- claims -------------------------------- *)

\* C1 as stated: for every S >= 1 and N >= 1 the happy-path log of S
\* sources over 0..N-1 yields no discrepancy message, only the summary
\* with S * N.
C1_AsStated ==
    LET log == Log IN
        \A S \in 1..MaxLines, N \in 1..MaxLines :
            (Finished /\ HappyLog(log, S, N))
            => output = << <<"Saw", S * N>> >>

\* C1 amended: the same for every S >= 1 and N >= 2 (sequence number 1,
\* the baseline of the per-sequence-number check, is part of the log).
C1_HappyPath ==
    LET log == Log IN
        \A S \in 1..MaxLines, N \in 2..MaxLines :
            (Finished /\ HappyLog(log, S, N))
            => output = << <<"Saw", S * N>> >>

C1_Witness ==
    LET log == Log IN
        /\ Finished
        /\ HappyLog(log, 1, 3)
        /\ output = << <<"Saw", 3>> >>
        /\ Cardinality(Names(log)) = 2
        /\ \E i \in 1..(Len(file) - 1) :
               log[i].number > log[i + 1].number

\* the operator-count check reported exactly operator op, with values m
\* (reported count) and t (line count)
FlagsOnly(op, m, t) ==
    OperatorEntries = << <<"OperatorSum", op>>, <<"maxOperatorSum", m, t>> >>

\* C2 as stated: when exactly one operator's last reported operatorCount
\* differs from its number of lines, the operator-count check reports that
\* operator and no other, with both values (the reported count printed
\* being the last one or the one the check compared).
C2_AsStated ==
    LET log == Log IN
        Finished =>
            \A op \in Names(log) :
                ( /\ LastCount(log, op) # LineCount(log, op)
                  /\ \A o \in Names(log) \ {op} :
                         LastCount(log, o) = LineCount(log, o) )
                => \E m \in {LastCount(log, op), Get(maxOperatorSum, op)} :
                       FlagsOnly(op, m, LineCount(log, op))

\* C2 amended: when exactly one operator's largest reported operatorCount
\* (0 if none of its counts is positive) differs from its number of lines,
\* the operator-count check reports that operator and no other, with that
\* largest count and the line count.
C2_LargestCount ==
    LET log == Log IN
        Finished =>
            \A op \in Names(log) :
                ( /\ LargestCount(log, op) # LineCount(log, op)
                  /\ \A o \in Names(log) \ {op} :
                         LargestCount(log, o) = LineCount(log, o) )
                => FlagsOnly(op, LargestCount(log, op), LineCount(log, op))

C2_Witness ==
    LET log == Log IN
        /\ Finished
        /\ Cardinality(Names(log)) = 2
        /\ \E op \in Names(log) :
               /\ LargestCount(log, op) # LineCount(log, op)
               /\ \A o \in Names(log) \ {op} :
                      /\ LargestCount(log, o) = LineCount(log, o)
                      /\ LastCount(log, o) # LineCount(log, o)
               /\ FlagsOnly(op, LargestCount(log, op), LineCount(log, op))

\* C3 as stated: for S >= 2, N >= 2 and every k in 0..N-1, the happy-path
\* log with one line of number k removed makes the per-sequence-number
\* check report k alone, with actual S-1 and expected S.
C3_AsStated ==
    LET log == Log IN
        \A S \in 2..MaxLines, N \in 2..MaxLines :
            \A k \in 0..(N - 1) :
                (Finished /\ MissingLog(log, S, N, k))
                => SequenceEntries = << <<"NotReceived", k, S - 1, S>> >>

\* C3 amended: the same for every k in 0..N-1 other than 1, the sequence
\* number the baseline is read from.
C3_MissingReceipt ==
    LET log == Log IN
        \A S \in 2..MaxLines, N \in 2..MaxLines :
            \A k \in (0..(N - 1)) \ {1} :
                (Finished /\ MissingLog(log, S, N, k))
                => SequenceEntries = << <<"NotReceived", k, S - 1, S>> >>

C3_Witness ==
    LET log == Log IN
        /\ Finished
        /\ MissingLog(log, 2, 2, 0)
        /\ SequenceEntries = << <<"NotReceived", 0, 1, 2>> >>

\* C4: whatever the order of the input lines, the per-sequence-number
\* check reports sequence numbers in strictly ascending numeric order, and
\* the reported set is the observed numbers whose receipt count differs
\* from that of sequence number 1.
C4_AscendingReports ==
    LET log == Log IN
        Finished =>
            /\ \A i \in 1..(Len(ReportedNumbers) - 1) :
                   ReportedNumbers[i] < ReportedNumbers[i + 1]
            /\ {ReportedNumbers[i] : i \in 1..Len(ReportedNumbers)}
                 = {n \in Numbers(log) : Receipts(log, n) # Receipts(log, 1)}

C4_Witness ==
    LET log == Log IN
        /\ Finished
        /\ Len(ReportedNumbers) >= 3
        /\ ReportedNumbers[2] = 2
        /\ ReportedNumbers[3] = 10
        /\ log[1].number = 10
        /\ log[2].number = 2
        /\ log[3].number = 0

\* C5: with no argument or more than two, main prints the usage message
\* and exits with code 2 without calling parse; with exactly one argument
\* parse gets that argument as the path and "," as the separator.
C5_UsageGuard ==
    /\ (pc # "main" /\ (Len(argv) = 0 \/ Len(argv) > 2)) =>
           /\ pc = "exit"
           /\ exitCode = 2
           /\ output = << <<"Usage">> >>
           /\ inputfile = <<>>
           /\ file = <<>>
    /\ (pc # "main" /\ Len(argv) = 1) =>
           /\ inputfile = argv[1]
           /\ separator = <<",">>
           /\ ~HasEntry("Usage")
           /\ exitCode # 2

C5_Witness ==
    /\ Len(argv) = 3
    /\ pc = "exit"
    /\ exitCode = 2
    /\ output = << <<"Usage">> >>

SomeLineRaises == \E i \in 1..Len(file) : Raises(file[i], separator)

\* C6: a line that does not split into four fields, or whose second or
\* fourth field is not an integer, ends the run in a fatal error at the
\* first such line, and nothing is printed.
C6_MalformedAbort ==
    SomeLineRaises =>
        /\ pc = "exit"
        /\ exitCode = FatalExit
        /\ output = <<>>
        /\ \A i \in 1..(Len(file) - 1) : ~Raises(file[i], separator)

C6_Witness ==
    /\ Len(file) = 3
    /\ Raises(file[3], separator)
    /\ separator = <<",">>
    /\ Len(Split(file[3], separator)) = 4
    /\ \A i \in 1..2 : NameOf(file[i], separator) = <<"a">>
                        /\ CountOf(file[i], separator) = 1
    /\ pc = "exit"
    /\ output = <<>>

\* what follows the first occurrence of the marker in arg
AfterMarker(arg) ==
    LET i == CHOOSE j \in 0..(Len(arg) - Len(Marker)) :
                 /\ SubSeq(arg, j + 1, j + Len(Marker)) = Marker
                 /\ \A h \in 0..(j - 1) :
                        SubSeq(arg, h + 1, h + Len(Marker)) # Marker
    IN  SubSeq(arg, i + Len(Marker) + 1, Len(arg))

\* C7 as stated: with two arguments, a second argument that contains
\* "--separator=" makes the separator everything that follows the marker,
\* and one that does not leaves the separator ",".
C7_AsStated ==
    (pc # "main" /\ Len(argv) = 2) =>
        separator = IF Contains(argv[2], Marker)
                    THEN AfterMarker(argv[2]) ELSE <<",">>

\* C7 amended: with two arguments, a second argument that contains
\* "--separator=" makes the separator that argument without its first 12
\* characters (what follows the marker when the argument starts with it),
\* and one that does not leaves the separator ",".
C7_SeparatorOption ==
    (pc # "main" /\ Len(argv) = 2) =>
        /\ Contains(argv[2], Marker) =>
               /\ Len(separator) = Len(argv[2]) - 12
               /\ \A i \in 1..Len(separator) : separator[i] = argv[2][i + 12]
        /\ StartsWith(argv[2], Marker) => Marker \o separator = argv[2]
        /\ ~Contains(argv[2], Marker) => separator = <<",">>

C7_Witness ==
    /\ Len(argv) = 2
    /\ argv[2] = Marker \o <<";">>
    /\ separator = <<";">>
    /\ Finished
    /\ Len(file) = 2

\* C8 (state part): after a scan without a fatal error every check has
\* reported what it found, the last output line is the summary with the
\* number of input lines, and the exit status is 0.
C8_FinalState ==
    LET log == Log IN
        Finished =>
            /\ output # <<>>
            /\ output[Len(output)] = <<"Saw", Len(file)>>
            /\ \A i \in 1..(Len(output) - 1) : output[i][1] # "Saw"
            /\ exitCode # 2
            /\ (\E op \in Names(log) : LargestCount(log, op) # LineCount(log, op))
                   => HasEntry("OperatorSum")
            /\ (\E n \in Numbers(log) : Receipts(log, n) # Receipts(log, 1))
                   => HasEntry("NotReceived")
            /\ (Len(file) #
                    (MaxOf(Numbers(log) \cup {0}) + 1) * Receipts(log, 1))
                   => HasEntry("LinesMismatch")

\* C8 (step part): no check stops the run or skips a later check.
C8_NoShortCircuit ==
    /\ (pc = "opcheck" => pc' = "baseline")
    /\ (pc = "baseline" => pc' = "seqcheck")
    /\ (pc = "seqcheck" => pc' = "rangecheck")
    /\ (pc = "rangecheck" => pc' = "sumcheck")
    /\ (pc = "sumcheck" => pc' = "summary")
    /\ (pc = "summary" => pc' = "exit")
    /\ (Stage >= 3 => exitCode' = 0)

\* C8: for every input whose scan completes without a fatal error, the
\* checks all run whatever they report, the last output line is the
\* summary with the number of input lines, and the exit status is 0.
C8_UnconditionalChecks == [][C8_NoShortCircuit]_vars /\ []C8_FinalState

C8_Witness ==
    /\ Finished
    /\ HasEntry("OperatorSum")
    /\ HasEntry("NotReceived")
    /\ HasEntry("LinesMismatch")
    /\ Len(file) = 3

\* C9: after every processed prefix total_lines is the sum of
\* totalOperatorCounts and the sum of numberCount, and the
\* total-count-vs-per-operator check never reports.
C9_CounterConservation ==
    /\ total_lines = SumValues(totalOperatorCounts)
    /\ total_lines = SumValues(numberCount)
    /\ (exitCode = 0 /\ Stage >= 2) => total_lines = Len(file)
    /\ ~HasEntry("OperatorLinesMismatch")
    /\ ~HasEntry("SawOperators")

C9_Witness ==
    /\ Finished
    /\ total_lines = 3
    /\ Len(totalOperatorCounts) = 2
    /\ Len(numberCount) = 3

\* C10: on a non-empty input without sequence number 1 the baseline is 0
\* and key 1 enters the receipt map, every sequence number of the input is
\* reported with expected value 0, 1 is not reported, and the
\* total-count-vs-range check reports; in every run the reported sequence
\* numbers occur in the input.
C10_AbsentBaseline ==
    LET log == Log IN
        /\ (Finished /\ file # <<>> /\ Receipts(log, 1) = 0) =>
               /\ numberOfParallelSources = 0
               /\ Has(numberCount, 1)
               /\ Get(numberCount, 1) = 0
               /\ HasEntry("LinesMismatch")
               /\ \A n \in Numbers(log) :
                      \E i \in 1..Len(SequenceEntries) :
                          SequenceEntries[i] =
                              <<"NotReceived", n, Receipts(log, n), 0>>
               /\ \A i \in 1..Len(ReportedNumbers) : ReportedNumbers[i] # 1
        /\ Finished =>
               \A i \in 1..Len(ReportedNumbers) :
                   ReportedNumbers[i] \in Numbers(log)

C10_Witness ==
    LET log == Log IN
        /\ Finished
        /\ Len(file) = 3
        /\ Receipts(log, 1) = 0
        /\ Cardinality(Numbers(log)) = 2
        /\ Len(SequenceEntries) = 2
        /\ HasEntry("LinesMismatch")

====
